---- MODULE Spec2Model ----
(***************************************************************************)
(* Model of pytorch-post-hoc-ema: the Decay Engine (KarrasEMA,             *)
(* src/posthoc_ema/karras_ema.py) and the Profile Set / Checkpoint Store / *)
(* Synthesizer front end (PostHocEMA, src/posthoc_ema/posthoc_ema.py).     *)
(*                                                                         *)
(* Tensors are modelled as integers (fixed point), a model or an EMA state *)
(* as a function from parameter names to tensors, the checkpoint directory *)
(* as a function from file names to file contents.  Two drivers exercise   *)
(* the code: "KarrasEMA" constructs and updates one engine directly,       *)
(* "PostHocEMA" goes through from_model / from_path / update / state_dict. *)
(***************************************************************************)
EXTENDS Integers, Sequences, FiniteSets, TLC

VARIABLES
    driver,        \* which public class the caller drives
    online,        \* the caller's live model: parameter name -> tensor
    changes,       \* how many times the caller has changed the live model
    eng,           \* KarrasEMA driver: <<>> or <<engine>>
    ctor,          \* KarrasEMA driver: outcome of the last constructor call
    calls,         \* KarrasEMA.update calls made on each engine now alive
    inst,          \* PostHocEMA driver: <<>> or <<instance fields>>
    ema_models,    \* PostHocEMA.ema_models when it is a ModuleList
    dir_exists,    \* whether the checkpoint directory exists
    dir,           \* checkpoint directory: file name -> content
    last,          \* outcome of the last PostHocEMA call
    pending,       \* a state_dict call of a concurrent reader that has
                   \* listed the checkpoints and not yet loaded them
    failures,      \* how many torch.save calls have failed so far
    restarts       \* how many PostHocEMA instances have been constructed

vars == <<driver, online, changes, eng, ctor, calls, inst, ema_models, dir_exists,
          dir, last, pending, failures, restarts>>

----------------------------------------------------------------------------
(* Bounds of the model *)

\* engine / global steps are driven up to this value
MaxStep == 10
\* at most this many environment events in one behaviour: the caller changing
\* the live model, a torch.save call failing, an instance being constructed
\* on a directory that already had one
MaxEvents == 1
\* max_checkpoints is drawn from 1..MaxMaxCheckpoints
MaxMaxCheckpoints == 2

----------------------------------------------------------------------------
(* Parameter names and tensors *)

\* names are character sequences, so that str.startswith can be modelled
NameW == <<"w">>
NameB == <<"b", "n">>
NameI == <<"i">>
Names == {NameW, NameB, NameI}

\* torch.is_floating_point(param) or torch.is_complex(param): "i" is an
\* integer-typed parameter
IsFloat(name) == name # NameI

TensorVals == {0, 8}

\* the states the caller's model takes
Models ==
    { [n \in Names |-> IF n = NameI THEN 1 + v \div 8 ELSE v] : v \in TensorVals }

StartsWith(name, prefix) ==
    /\ Len(prefix) <= Len(name)
    /\ SubSeq(name, 1, Len(prefix)) = prefix

RECURSIVE Pow(_, _)
Pow(b, e) == IF e = 0 THEN 1 ELSE b * Pow(b, e - 1)

----------------------------------------------------------------------------
(* Optional arguments: None is <<>>, a given value v is <<v>> *)

None == <<>>
Some(v) == <<v>>
exists(val) == val # None

\* sigma_rel (in hundredths) -> gamma; the transform is monotone and
\* invertible, a wider profile has the smaller gamma
sigma_rel_to_gamma(sigma_rel) ==
    CASE sigma_rel = 5  -> 3
      [] sigma_rel = 15 -> 2
      [] sigma_rel = 28 -> 1

SigmaRelArgs == {None, Some(5), Some(28)}
GammaArgs == {None, Some(1), Some(3)}

----------------------------------------------------------------------------
(* KarrasEMA: the Decay Engine *)

\* the assertion at the head of KarrasEMA.__init__
CtorAccepts_or(sigma_rel, gamma) == exists(sigma_rel) \/ exists(gamma)
CtorAccepts(sigma_rel, gamma) == exists(sigma_rel) # exists(gamma)

\* exclusion rules a caller may pass to the constructor
NoRules ==
    [ignore_names |-> {}, ignore_startswith_names |-> {},
     param_or_buffer_names_no_ema |-> {}]
RuleSets ==
    { NoRules,
      [NoRules EXCEPT !.ignore_names = {NameB}],
      [NoRules EXCEPT !.ignore_startswith_names = {<<"b">>}],
      [NoRules EXCEPT !.param_or_buffer_names_no_ema = {NameB}] }

\* the engine KarrasEMA.__init__ builds once the assertion has passed
KarrasEMA(model, sigma_rel, gamma, update_every, frozen, rules) ==
    [gamma |-> IF exists(sigma_rel) THEN sigma_rel_to_gamma(sigma_rel[1])
               ELSE gamma[1],
     frozen |-> frozen,
     update_every |-> update_every,
     ema_model |-> model,
     parameter_names |-> {n \in Names : IsFloat(n)},
     param_or_buffer_names_no_ema |-> rules.param_or_buffer_names_no_ema,
     ignore_names |-> rules.ignore_names,
     ignore_startswith_names |-> rules.ignore_startswith_names,
     initted |-> FALSE,
     step |-> 0]

_should_update_param_all(e, name) == TRUE
_should_update_param(e, name) ==
    /\ name \notin e.ignore_names
    /\ ~ \E prefix \in e.ignore_startswith_names : StartsWith(name, prefix)
    /\ name \notin e.param_or_buffer_names_no_ema

\* the names get_params_iter yields
get_params_iter(e) == {n \in Names : n \in e.parameter_names}

\* beta as the fraction <<numerator, denominator>>, read after the
\* increment of step
beta_no_complement(e) == <<1, Pow(e.step + 1, 1 + e.gamma)>>
beta(e) == <<Pow(e.step, 1 + e.gamma), Pow(e.step + 1, 1 + e.gamma)>>

\* tgt.copy_(src)
inplace_copy(tgt, src) == src

\* tgt.lerp_(src, weight) with weight = wn / wd, in fixed point
inplace_lerp(tgt, src, wn, wd) == tgt + ((src - tgt) * wn) \div wd

copy_params_from_model_to_ema_skip(e, model) == e
copy_params_from_model_to_ema(e, model) ==
    [e EXCEPT !.ema_model =
        [n \in Names |->
            IF n \in get_params_iter(e) /\ _should_update_param(e, n)
            THEN inplace_copy(e.ema_model[n], model[n])
            ELSE e.ema_model[n]]]

update_moving_average(e, model) ==
    LET current_decay == beta(e)
        wn == current_decay[2] - current_decay[1]
        wd == current_decay[2]
    IN [e EXCEPT !.ema_model =
        [n \in Names |->
            IF n \in get_params_iter(e) /\ _should_update_param(e, n)
            THEN inplace_lerp(e.ema_model[n], model[n], wn, wd)
            ELSE e.ema_model[n]]]

\* the step counter after KarrasEMA.update has read and incremented it
StepAfterUpdate_gated(e) ==
    IF e.step % e.update_every # 0 THEN e.step ELSE e.step + 1
StepAfterUpdate(e) == e.step + 1

\* KarrasEMA.update on engine e whose online_model[0] is model
KarrasUpdate_postgate(e, model) ==
    LET e1 == [e EXCEPT !.step = StepAfterUpdate(e)]
        e2 == IF ~ e1.initted
              THEN [copy_params_from_model_to_ema(e1, model)
                        EXCEPT !.initted = TRUE]
              ELSE e1
    IN IF e1.step % e.update_every # 0 THEN e1
       ELSE IF ~ e.frozen THEN update_moving_average(e2, model)
       ELSE e2
KarrasUpdate(e, model) ==
    LET step == e.step
        e1 == [e EXCEPT !.step = StepAfterUpdate(e)]
        e2 == IF ~ e1.initted
              THEN [copy_params_from_model_to_ema(e1, model)
                        EXCEPT !.initted = TRUE]
              ELSE e1
    IN IF step % e.update_every # 0 THEN e1
       ELSE IF ~ e.frozen THEN update_moving_average(e2, model)
       ELSE e2

----------------------------------------------------------------------------
(* Checkpoint files *)

\* decimal formatting of a non-negative integer, as in an f-string
RECURSIVE Str(_)
Str(n) == IF n < 10 THEN <<n>> ELSE Append(Str(n \div 10), n % 10)

\* int(s) of a digit string
RECURSIVE IntOf(_)
IntOf(ds) ==
    IF Len(ds) = 0 THEN 0
    ELSE 10 * IntOf(SubSeq(ds, 1, Len(ds) - 1)) + ds[Len(ds)]

\* order of two digit strings as Python strings
RECURSIVE StrLess(_, _)
StrLess(a, b) ==
    IF Len(b) = 0 THEN FALSE
    ELSE IF Len(a) = 0 THEN TRUE
    ELSE IF a[1] # b[1] THEN a[1] < b[1]
    ELSE StrLess(Tail(a), Tail(b))

\* the file f"{idx}.{step}.pt", kept as its two dot-separated stem fields
FileName(idx, step) == <<Str(idx), Str(step)>>

\* checkpoint_dir.glob(f"{idx}.*.pt")
Glob(d, idx) == {p \in DOMAIN d : p[1] = Str(idx)}

\* the sort key int(p.stem.split(".")[1]), as an order on paths
KeyLess_str(p, q) == StrLess(p[2], q[2])
KeyLess(p, q) == IntOf(p[2]) < IntOf(q[2])

\* sorted(paths, key=...)
RECURSIVE Sorted(_)
Sorted(S) ==
    IF S = {} THEN <<>>
    ELSE LET m == CHOOSE p \in S : \A q \in S : ~ KeyLess(q, p)
         IN <<m>> \o Sorted(S \ {m})

Unlink(d, p) == [q \in DOMAIN d \ {p} |-> d[q]]
Save(d, p, content) == [q \in DOMAIN d \cup {p} |-> IF q = p THEN content ELSE d[q]]

\* ema_model.state_dict() converted to float64: the parameters of the EMA
\* copy and the two registered buffers
CheckpointOf(e) ==
    [ok |-> TRUE, ema_model |-> e.ema_model, initted |-> e.initted,
     step |-> e.step]

\* what an interrupted torch.save can leave behind
PartialFile ==
    [ok |-> FALSE, ema_model |-> [n \in Names |-> 0], initted |-> FALSE,
     step |-> 0]

\* _create_checkpoint from profile idx on; the write of profile fail_at
\* raises (fail_at = number of profiles: no write fails), leaving a partial
\* file or none
RECURSIVE CreateFrom(_, _, _, _, _, _)
CreateFrom(d, engines, step, idx, fail_at, partial) ==
    IF idx >= Len(engines) THEN d
    ELSE IF idx = fail_at
         THEN IF partial THEN Save(d, FileName(idx, step), PartialFile)
              ELSE d
    ELSE CreateFrom(Save(d, FileName(idx, step), CheckpointOf(engines[idx + 1])),
                    engines, step, idx + 1, fail_at, partial)

_create_checkpoint(d, engines, step, fail_at, partial) ==
    CreateFrom(d, engines, step, 0, fail_at, partial)

\* the profiles whose torch.save was called in that cycle
Attempted(engines, fail_at) ==
    {idx \in 0 .. Len(engines) - 1 : idx <= fail_at}

\* the while loop of _cleanup_old_checkpoints
RECURSIVE PruneLoop(_, _, _)
PruneLoop_newest(d, checkpoints, max_checkpoints) ==
    IF Len(checkpoints) > max_checkpoints
    THEN PruneLoop(Unlink(d, checkpoints[Len(checkpoints)]),
                   SubSeq(checkpoints, 1, Len(checkpoints) - 1),
                   max_checkpoints)
    ELSE d
PruneLoop(d, checkpoints, max_checkpoints) ==
    IF Len(checkpoints) > max_checkpoints
    THEN PruneLoop(Unlink(d, checkpoints[1]), Tail(checkpoints), max_checkpoints)
    ELSE d

RECURSIVE CleanupFrom(_, _, _, _)
CleanupFrom(d, idx, n, max_checkpoints) ==
    IF idx >= n THEN d
    ELSE CleanupFrom(PruneLoop(d, Sorted(Glob(d, idx)), max_checkpoints),
                     idx + 1, n, max_checkpoints)

_cleanup_old_checkpoints(d, n, max_checkpoints) ==
    CleanupFrom(d, 0, n, max_checkpoints)

\* the test `self.step % self.checkpoint_every == 0` on the incremented step
CheckpointDue_pre(step, checkpoint_every) == (step - 1) % checkpoint_every = 0
CheckpointDue(step, checkpoint_every) == step % checkpoint_every = 0

----------------------------------------------------------------------------
(* PostHocEMA: construction and the per-step update *)

\* the default sigma_rels=(0.05, 0.28), in hundredths
DefaultSigmaRels == <<5, 28>>

\* the <<update_every, checkpoint_every>> pairs callers configure
Cadences == {<<1, 2>>, <<2, 5>>}

\* keyword arguments a caller passes to from_model / from_path
Configs ==
    { [max_checkpoints |-> mc, update_every |-> c[1], checkpoint_every |-> c[2]] :
        mc \in 1 .. MaxMaxCheckpoints, c \in Cadences }

\* PostHocEMA.__init__
PostHocEMA(cfg) ==
    [max_checkpoints |-> cfg.max_checkpoints,
     update_every |-> cfg.update_every,
     checkpoint_every |-> cfg.checkpoint_every,
     sigma_rels |-> DefaultSigmaRels,
     gammas |-> [i \in DOMAIN DefaultSigmaRels |->
                    sigma_rel_to_gamma(DefaultSigmaRels[i])],
     step |-> 0]

\* the ModuleList built by from_model and by from_path with a model
EngineList(self, model) ==
    [i \in DOMAIN self.sigma_rels |->
        KarrasEMA(model, Some(self.sigma_rels[i]), None, self.update_every,
                  FALSE, NoRules)]

\* the body of the loop over self.ema_models in PostHocEMA.update
UpdateEngine_skipfirst(e, model) ==
    IF ~ e.initted
    THEN [copy_params_from_model_to_ema(e, model) EXCEPT !.initted = TRUE]
    ELSE KarrasUpdate(e, model)
UpdateEngine(e, model) ==
    LET e0 == IF ~ e.initted
              THEN [copy_params_from_model_to_ema(e, model)
                        EXCEPT !.initted = TRUE]
              ELSE e
    IN KarrasUpdate(e0, model)

\* the record of the last PostHocEMA call
NoCall ==
    [op |-> "none", outcome |-> "none", requested |-> None, target |-> 0,
     collected |-> <<>>, written |-> {}, attempted |-> {}, fail_at |-> None,
     before |-> {}]

----------------------------------------------------------------------------
(* PostHocEMA.state_dict: collection of checkpoints and the target step *)

RECURSIVE CollectFrom(_, _, _)
CollectFrom(d, idx, n) ==
    IF idx >= n THEN <<>>
    ELSE Sorted(Glob(d, idx)) \o CollectFrom(d, idx + 1, n)

Timesteps(checkpoints) ==
    [k \in DOMAIN checkpoints |-> IntOf(checkpoints[k][2])]

MaxOf(seq) ==
    CHOOSE x \in {seq[k] : k \in DOMAIN seq} :
        \A k \in DOMAIN seq : seq[k] <= x

\* the step used when the caller gives none
DefaultStep_last(timesteps) == timesteps[Len(timesteps)]
DefaultStep(timesteps) == MaxOf(timesteps)

\* the assertion `step <= max(timesteps)`
StepAccepted_any(step, timesteps) == TRUE
StepAccepted(step, timesteps) == step <= MaxOf(timesteps)

\* outcome of state_dict(sigma_rel, step) on the instance and directory
StateDictCall(op, models, d, sigma_rel, step) ==
    IF models = None
    THEN [NoCall EXCEPT !.op = op, !.outcome = "TypeError",
                        !.requested = step]
    ELSE LET checkpoints == CollectFrom(d, 0, Len(models[1]))
             timesteps == Timesteps(checkpoints)
             target == IF step # None THEN step[1] ELSE DefaultStep(timesteps)
             call == [NoCall EXCEPT !.op = op, !.requested = step,
                                    !.collected = checkpoints]
         IN IF Len(checkpoints) = 0
            THEN [call EXCEPT !.outcome = "ValueError"]
            ELSE IF ~ StepAccepted(target, timesteps)
            THEN [call EXCEPT !.outcome = "AssertionError"]
            ELSE IF \E k \in DOMAIN checkpoints : ~ d[checkpoints[k]].ok
            THEN [call EXCEPT !.outcome = "LoadError", !.target = target]
            ELSE [call EXCEPT !.outcome = "returned", !.target = target]

\* the step arguments callers pass to state_dict and model
StepArgs == {None, Some(5), Some(6)}

----------------------------------------------------------------------------
(* Initial state: nothing constructed, no checkpoint directory *)

EmptyDir == [p \in {} |-> PartialFile]

NoCtor == [outcome |-> "none", sigma_rel |-> None, gamma |-> None]

Init ==
    /\ driver \in {"KarrasEMA", "PostHocEMA"}
    /\ online \in Models
    /\ changes = 0
    /\ eng = <<>>
    /\ ctor = NoCtor
    /\ calls = 0
    /\ inst = <<>>
    /\ ema_models = None
    /\ dir_exists = FALSE
    /\ dir = EmptyDir
    /\ last = NoCall
    /\ pending = <<>>
    /\ failures = 0
    /\ restarts = 0

Changed(m) == IF m = online THEN changes ELSE changes + 1

\* environment events so far; the first construction is not one
Events ==
    changes + failures + (IF restarts > 0 THEN restarts - 1 ELSE 0)

NextModels == IF Events < MaxEvents THEN Models ELSE {online}

----------------------------------------------------------------------------
(* KarrasEMA driver *)

\* KarrasEMA(model, sigma_rel=..., gamma=..., ...) on the live model
KarrasNew(sigma_rel, gamma, update_every, frozen, rules) ==
    /\ driver = "KarrasEMA"
    /\ eng = <<>>
    /\ IF CtorAccepts(sigma_rel, gamma)
       THEN /\ eng' = <<KarrasEMA(online, sigma_rel, gamma, update_every,
                                  frozen, rules)>>
            /\ ctor' = [outcome |-> "ok", sigma_rel |-> sigma_rel,
                        gamma |-> gamma]
       ELSE /\ eng' = eng
            /\ ctor' = [outcome |-> "AssertionError", sigma_rel |-> sigma_rel,
                        gamma |-> gamma]
    /\ UNCHANGED <<pending, driver, online, changes, calls, inst, ema_models,
                   dir_exists, dir, last, failures, restarts>>

\* the caller trains the live model, then calls KarrasEMA.update()
KarrasStep(m) ==
    /\ driver = "KarrasEMA"
    /\ eng # <<>>
    /\ eng[1].step < MaxStep
    /\ online' = m
    /\ changes' = Changed(m)
    /\ eng' = <<KarrasUpdate(eng[1], m)>>
    /\ calls' = calls + 1
    /\ UNCHANGED <<pending, driver, ctor, inst, ema_models, dir_exists, dir, last,
                   failures, restarts>>

----------------------------------------------------------------------------
(* PostHocEMA driver *)

\* PostHocEMA.from_model(model, checkpoint_dir, **cfg)
FromModel(cfg) ==
    /\ driver = "PostHocEMA"
    /\ restarts > 0 => Events < MaxEvents
    /\ restarts' = restarts + 1
    /\ inst' = <<PostHocEMA(cfg)>>
    /\ dir_exists' = TRUE
    /\ ema_models' = Some(EngineList(PostHocEMA(cfg), online))
    /\ calls' = 0
    /\ last' = [NoCall EXCEPT !.op = "from_model", !.outcome = "returned"]
    /\ UNCHANGED <<pending, driver, online, changes, eng, ctor, dir, failures>>

\* PostHocEMA.from_path(checkpoint_dir, model=None or the live model, **cfg)
FromPath(cfg, with_model) ==
    /\ driver = "PostHocEMA"
    /\ restarts > 0 => Events < MaxEvents
    /\ IF ~ dir_exists
       THEN /\ last' = [NoCall EXCEPT !.op = "from_path",
                                      !.outcome = "AssertionError"]
            /\ UNCHANGED <<inst, ema_models, calls, restarts>>
       ELSE /\ restarts' = restarts + 1
            /\ inst' = <<PostHocEMA(cfg)>>
            /\ calls' = 0
            /\ ema_models' = IF with_model
                             THEN Some(EngineList(PostHocEMA(cfg), online))
                             ELSE None
            /\ last' = [NoCall EXCEPT !.op = "from_path",
                                      !.outcome = "returned"]
    /\ UNCHANGED <<pending, driver, online, changes, eng, ctor, dir_exists, dir,
                   failures>>

\* PostHocEMA.update(model) on an instance without engines: iterating
\* self.ema_models raises before anything is changed
UpdateNoModels ==
    /\ driver = "PostHocEMA"
    /\ inst # <<>>
    /\ ema_models = None
    /\ last' = [NoCall EXCEPT !.op = "update", !.outcome = "TypeError"]
    /\ UNCHANGED <<pending, driver, online, changes, eng, ctor, calls, inst,
                   ema_models, dir_exists, dir, failures, restarts>>

\* PostHocEMA.update(model): every engine is updated, the global step is
\* incremented, and on a checkpoint step the checkpoints are written and
\* pruned.  The torch.save of profile fail_at raises (fail_at = number of
\* profiles: none does); the exception leaves update at once.
Update(m, fail_at, partial) ==
    /\ driver = "PostHocEMA"
    /\ inst # <<>>
    /\ ema_models # None
    /\ inst[1].step < MaxStep
    /\ LET self == inst[1]
           n == Len(ema_models[1])
           engines == [i \in 1 .. n |-> UpdateEngine(ema_models[1][i], m)]
           step == self.step + 1
           due == CheckpointDue(step, self.checkpoint_every)
           fails == fail_at < n
           created == _create_checkpoint(dir, engines, step, fail_at, partial)
       IN /\ fail_at \in 0 .. n
          /\ fails => due /\ Events < MaxEvents
          /\ partial => fails
          /\ online' = m
          /\ changes' = Changed(m)
          /\ ema_models' = Some(engines)
          /\ calls' = calls + 1
          /\ inst' = <<[self EXCEPT !.step = step]>>
          /\ failures' = IF fails THEN failures + 1 ELSE failures
          /\ IF ~ due
             THEN /\ dir' = dir
                  /\ last' = [NoCall EXCEPT !.op = "update",
                                            !.outcome = "returned"]
             ELSE IF fails
             THEN /\ dir' = created
                  /\ last' = [NoCall EXCEPT
                                !.op = "update", !.outcome = "IOError",
                                !.written = {p \in DOMAIN created :
                                    p \notin DOMAIN dir \/ created[p] # dir[p]},
                                !.attempted = Attempted(engines, fail_at),
                                !.fail_at = Some(fail_at)]
             ELSE /\ dir' = _cleanup_old_checkpoints(created, n,
                                                     self.max_checkpoints)
                  /\ last' = [NoCall EXCEPT
                                !.op = "update", !.outcome = "returned",
                                !.written = {FileName(i, step) : i \in 0 .. n - 1}
                                                \cap DOMAIN created,
                                !.attempted = Attempted(engines, fail_at),
                                !.before = DOMAIN created]
    /\ UNCHANGED <<pending, driver, eng, ctor, dir_exists, restarts>>

\* PostHocEMA.state_dict(sigma_rel, step)
StateDict_unlinking(sigma_rel, step) ==
    /\ driver = "PostHocEMA"
    /\ inst # <<>>
    /\ last' = StateDictCall("state_dict", ema_models, dir, sigma_rel, step)
    /\ dir' = IF last'.outcome = "returned"
              THEN Unlink(dir, last'.collected[1]) ELSE dir
    /\ UNCHANGED <<pending, driver, online, changes, eng, ctor, calls, inst,
                   ema_models, dir_exists, failures, restarts>>
StateDict(sigma_rel, step) ==
    /\ driver = "PostHocEMA"
    /\ inst # <<>>
    /\ last' = StateDictCall("state_dict", ema_models, dir, sigma_rel, step)
    /\ UNCHANGED <<pending, driver, online, changes, eng, ctor, calls, inst,
                   ema_models, dir_exists, dir, failures, restarts>>

\* with PostHocEMA.model(base_model, sigma_rel, step): state_dict is called
\* first and its error leaves the context manager before anything is yielded
ModelContext(sigma_rel, step) ==
    /\ driver = "PostHocEMA"
    /\ inst # <<>>
    /\ last' = StateDictCall("model", ema_models, dir, sigma_rel, step)
    /\ UNCHANGED <<pending, driver, online, changes, eng, ctor, calls, inst,
                   ema_models, dir_exists, dir, failures, restarts>>

\* the caller passes the same keyword arguments on every construction
Kwargs ==
    IF inst = <<>> THEN Configs
    ELSE {cfg \in Configs : PostHocEMA(cfg) = [inst[1] EXCEPT !.step = 0]}

Next ==
    \/ \E sigma_rel \in SigmaRelArgs, gamma \in GammaArgs,
          update_every \in 1 .. 3, frozen \in BOOLEAN, rules \in RuleSets :
            KarrasNew(sigma_rel, gamma, update_every, frozen, rules)
    \/ \E m \in NextModels : KarrasStep(m)
    \/ \E cfg \in Kwargs : FromModel(cfg)
    \/ \E cfg \in Kwargs, with_model \in BOOLEAN : FromPath(cfg, with_model)
    \/ UpdateNoModels
    \/ \E m \in NextModels, fail_at \in 0 .. Len(DefaultSigmaRels),
          partial \in BOOLEAN : Update(m, fail_at, partial)
    \/ \E step \in StepArgs : StateDict(15, step)
    \/ \E step \in StepArgs : ModelContext(15, step)

Spec == Init /\ [][Next]_vars

----------------------------------------------------------------------------
(* A reader that synthesizes while the training run writes and prunes *)

\* the loads of state_dict, in list order, from the directory as it is when
\* they run: the first file that is gone or cannot be unpickled raises
LoadOutcome_skip_missing(checkpoints, d) ==
    IF \E k \in DOMAIN checkpoints :
            checkpoints[k] \in DOMAIN d /\ ~ d[checkpoints[k]].ok
    THEN "LoadError" ELSE "returned"
LoadOutcome(checkpoints, d) ==
    LET bad == {k \in DOMAIN checkpoints :
                    checkpoints[k] \notin DOMAIN d \/ ~ d[checkpoints[k]].ok}
        first == CHOOSE k \in bad : \A j \in bad : k <= j
    IN IF bad = {} THEN "returned"
       ELSE IF checkpoints[first] \notin DOMAIN d THEN "FileNotFoundError"
       ELSE "LoadError"

\* state_dict up to the assertion on the step: the checkpoints are listed
\* and the target step is fixed; an error ends the call here
SynthList(sigma_rel, step) ==
    /\ driver = "PostHocEMA"
    /\ inst # <<>>
    /\ pending = <<>>
    /\ LET call == StateDictCall("state_dict", ema_models, dir, sigma_rel, step)
       IN IF call.outcome \in {"TypeError", "ValueError", "AssertionError"}
          THEN last' = call /\ pending' = pending
          ELSE last' = last /\ pending' = <<call>>
    /\ UNCHANGED <<driver, online, changes, eng, ctor, calls, inst,
                   ema_models, dir_exists, dir, failures, restarts>>

\* the rest of that state_dict call: torch.load of every listed checkpoint
SynthLoad ==
    /\ driver = "PostHocEMA"
    /\ pending # <<>>
    /\ last' = [pending[1] EXCEPT
                    !.outcome = LoadOutcome(pending[1].collected, dir)]
    /\ pending' = <<>>
    /\ UNCHANGED <<driver, online, changes, eng, ctor, calls, inst,
                   ema_models, dir_exists, dir, failures, restarts>>

InitRace == Init /\ driver = "PostHocEMA"

\* the training run keeps calling update (here with an unchanged model: the
\* outcome of the loads does not depend on the tensors) while the reader runs
NextRace ==
    \/ \E cfg \in Kwargs : FromModel(cfg)
    \/ \E fail_at \in 0 .. Len(DefaultSigmaRels), partial \in BOOLEAN :
            Update(online, fail_at, partial)
    \/ \E step \in StepArgs : SynthList(15, step)
    \/ SynthLoad

SpecRace == InitRace /\ [][NextRace]_vars

----------------------------------------------------------------------------
(* Properties *)

\* every engine now alive
Engines ==
    IF driver = "KarrasEMA" THEN {eng[k] : k \in DOMAIN eng}
    ELSE IF ema_models = None THEN {}
    ELSE {ema_models[1][k] : k \in DOMAIN ema_models[1]}

\* profile indices of the instance now alive
Profiles == IF ema_models = None THEN {} ELSE 0 .. Len(ema_models[1]) - 1

\* the steps of the files of profile idx among the paths S
StepsOf(S, idx) == {IntOf(p[2]) : p \in {q \in S : q[1] = Str(idx)}}

UpdateReturned == last.op = "update" /\ last.outcome = "returned"

\* C1: after s calls of KarrasEMA.update on a freshly constructed engine the
\* step counter is exactly s, for every update_every, whether or not the
\* calls fired; so each call adds exactly 1 and the counter never decreases.
C1_StepCountsCalls == \A e \in Engines : e.step = calls

C1_Witness ==
    /\ driver = "KarrasEMA"
    /\ \E e \in Engines : e.update_every = 3 /\ calls = 5 /\ e.step = 5

\* C2: whenever a PostHocEMA.update call has returned, every profile index
\* has at most max_checkpoints checkpoint files in the directory.
C2_AtMostMaxCheckpoints ==
    UpdateReturned =>
        \A idx \in Profiles :
            Cardinality(Glob(dir, idx)) <= inst[1].max_checkpoints

\* C3: after _cleanup_old_checkpoints has run, each profile retains exactly
\* the max_checkpoints numerically largest steps of the files it had before
\* pruning (all of them if there were fewer), steps compared as integers,
\* and loses nothing because of another profile.
C3_PruneKeepsLargest ==
    (UpdateReturned /\ last.before # {}) =>
        \A idx \in Profiles :
            LET had == StepsOf(last.before, idx)
                kept == StepsOf(DOMAIN dir, idx)
                mc == inst[1].max_checkpoints
            IN /\ kept \subseteq had
               /\ Cardinality(kept) =
                    (IF Cardinality(had) < mc THEN Cardinality(had) ELSE mc)
               /\ \A k \in kept : \A h \in had \ kept : h < k
               /\ Cardinality(Glob(dir, idx)) = Cardinality(kept)

\* pruning has removed files of a profile that held a two-digit step and a
\* one-digit step, where string order and integer order disagree
C3_Witness ==
    /\ UpdateReturned
    /\ \E idx \in Profiles :
        LET had == StepsOf(last.before, idx)
        IN /\ Cardinality(had) > inst[1].max_checkpoints
           /\ \E a \in had, b \in had : a < 10 /\ b >= 10
           /\ \E h \in had : h \notin StepsOf(DOMAIN dir, idx)

\* one instance built by from_model on the empty directory, no failed write
FreshRun ==
    /\ driver = "PostHocEMA"
    /\ restarts = 1
    /\ failures = 0
    /\ inst # <<>>
    /\ ema_models # None

\* C4: checkpoints are written by exactly the update calls whose incremented
\* global step is a positive multiple of checkpoint_every, one file per
\* profile named with that step: on a directory that started empty, after s
\* updates each profile holds the multiples of checkpoint_every in 1..s (the
\* max_checkpoints latest of them), and nothing else; with max_checkpoints at
\* least the number of cycles these are all the multiples.
C4_CheckpointAtMultiples ==
    FreshRun =>
        LET ce == inst[1].checkpoint_every
            cycles == inst[1].step \div ce
            mc == inst[1].max_checkpoints
        IN \A idx \in Profiles :
            StepsOf(DOMAIN dir, idx) =
                {k * ce : k \in {j \in 1 .. cycles : j > cycles - mc}}

\* two cycles have run, at steps 5 and 10, and max_checkpoints keeps both
C4_Witness ==
    /\ FreshRun
    /\ inst[1].checkpoint_every = 5
    /\ inst[1].step = 10
    /\ inst[1].max_checkpoints >= 2
    /\ \A idx \in Profiles : StepsOf(DOMAIN dir, idx) = {5, 10}


Synthesis == last.op \in {"state_dict", "model"}

\* the largest step among the checkpoint files of all profiles
MaxStored ==
    CHOOSE x \in {IntOf(p[2]) : p \in DOMAIN dir} :
        \A p \in DOMAIN dir : IntOf(p[2]) <= x

\* C5: state_dict (and model) called with a step greater than the maximum
\* stored step fails with the assertion and synthesizes nothing; a step up
\* to the maximum is not rejected by that assertion; a call that returns has
\* synthesized for the requested step itself, never for a clamped one.
C5_StepBeyondMaxRejected ==
    (Synthesis /\ ema_models # None /\ last.requested # None
        /\ DOMAIN dir # {}) =>
        /\ last.requested[1] > MaxStored =>
                last.outcome = "AssertionError" /\ last.target = 0
        /\ last.requested[1] <= MaxStored => last.outcome # "AssertionError"
        /\ last.outcome = "returned" => last.target = last.requested[1]

\* step 6 was requested when the newest checkpoint is of step 5
C5_Witness ==
    /\ last.op = "state_dict"
    /\ ema_models # None
    /\ last.requested = Some(6)
    /\ DOMAIN dir # {}
    /\ MaxStored = 5
    /\ last.outcome = "AssertionError"

\* C6: when the write of one profile's checkpoint fails in a cycle, the
\* writes of all the profiles after it are still attempted.
C6_WriteFailureIsolated ==
    (last.op = "update" /\ last.fail_at # None) =>
        last.attempted = Profiles

\* the engines' eligible parameters
Eligible(e) ==
    {n \in Names : IsFloat(n) /\ _should_update_param(e, n)}

\* C7: after the first update call on an engine (KarrasEMA.update, or
\* PostHocEMA.update for each of its engines) the EMA value of every eligible
\* parameter equals the live model's value: the bootstrap copies verbatim and
\* the blend that runs in the same call does not move it.
C7_FirstUpdateCopies ==
    calls = 1 =>
        \A e \in Engines :
            /\ e.initted
            /\ \A n \in Eligible(e) : e.ema_model[n] = online[n]

\* the model was changed between construction and the first update, and the
\* engine is not frozen, so the blend ran on values that differ from the
\* ones the EMA copy was constructed with
C7_Witness ==
    /\ calls = 1
    /\ changes = 1
    /\ \E e \in Engines :
        /\ ~ e.frozen
        /\ e.update_every > 1
        /\ \E n \in Eligible(e) : e.ema_model[n] = online[n]
    /\ driver = "KarrasEMA"

\* C8: a KarrasEMA constructor call with both sigma_rel and gamma, or with
\* neither, fails and yields no engine; a call with exactly one of them is
\* accepted.
C8_ExactlyOneOfSigmaRelGamma ==
    ctor.outcome # "none" =>
        IF (ctor.sigma_rel = None) = (ctor.gamma = None)
        THEN ctor.outcome = "AssertionError" /\ eng = <<>>
        ELSE ctor.outcome = "ok" /\ eng # <<>>

C8_Witness ==
    /\ ctor.outcome = "AssertionError"
    /\ ctor.sigma_rel # None
    /\ ctor.gamma # None
    /\ eng = <<>>

\* C9: an instance obtained from from_path without a model, over a directory
\* holding at least one checkpoint, synthesizes: state_dict with a valid or
\* omitted step returns a state rather than an error.
C9_FromPathWithoutModelSynthesizes ==
    (last.op = "state_dict" /\ inst # <<>> /\ ema_models = None
        /\ DOMAIN dir # {} /\ (\A p \in DOMAIN dir : dir[p].ok)
        /\ (last.requested = None \/ last.requested[1] <= MaxStored)) =>
        last.outcome = "returned"

\* C10: with the step omitted, state_dict synthesizes for the maximum step
\* among the checkpoints of all profiles.
C10_DefaultStepIsMaxStored ==
    (Synthesis /\ last.requested = None /\ last.outcome = "returned") =>
        last.target = MaxStored

\* the default step differs from the instance's own step counter and
\* exceeds the newest checkpoint of one profile
C10_Witness ==
    /\ last.op = "state_dict"
    /\ last.requested = None
    /\ last.outcome = "returned"
    /\ last.target = MaxStored
    /\ last.target # inst[1].step
    /\ \E idx \in Profiles : \A s \in StepsOf(DOMAIN dir, idx) : s < MaxStored

\* C11: synthesis is read-only. A state_dict call (alone or inside the model
\* context manager), whether it returns or fails, creates, deletes and
\* modifies no file of the checkpoint directory and leaves the global step
\* and every engine's EMA state, step counter and initted flag as they were.
C11_SynthesisReadOnly ==
    [][last'.op \in {"state_dict", "model"}
          => UNCHANGED <<dir, dir_exists, inst, ema_models>>]_vars

C11_Witness ==
    /\ Synthesis
    /\ last.outcome = "returned"
    /\ Len(last.collected) >= 2
    /\ ema_models # None
    /\ inst[1].step > last.target

\* C12: a checkpoint file is immutable. Once the file of (profile index,
\* step) is in the directory no later operation changes its content, and no
\* later update, of this instance or of a new instance built on the same
\* directory, writes that (profile index, step) again.
C12_CheckpointImmutable ==
    [][/\ \A p \in DOMAIN dir \cap DOMAIN dir' : dir'[p] = dir[p]
       /\ (calls' = calls + 1 /\ last'.op = "update"
                              /\ last'.outcome = "returned")
              => last'.written \cap DOMAIN dir = {}]_vars

\* comparison of two fractions <<numerator, denominator>> with positive
\* denominators
FracLess(a, b) == a[1] * b[2] < b[1] * a[2]

\* the gammas the comparison ranges over: those of sigma_rel 0.05, 0.15
\* and 0.28
CompareGammas == {sigma_rel_to_gamma(s) : s \in {5, 15, 28}}

\* C13 as stated: for every engine with step >= 1, beta grows with the step
\* and grows with gamma.
C13_BetaIncreasingInGamma ==
    \A e \in Engines : e.step >= 1 =>
        /\ FracLess(beta(e), beta([e EXCEPT !.step = e.step + 1]))
        /\ \A g \in CompareGammas : g > e.gamma =>
               FracLess(beta(e), beta([e EXCEPT !.gamma = g]))

\* C13: for a fixed gamma > 0, beta = (1 - 1/(step+1))^(1+gamma) is strictly
\* increasing in the step; for a fixed step >= 1 it is strictly decreasing
\* in gamma (a larger exponent on a base below 1).
C13_BetaMonotone ==
    \A e \in Engines : e.step >= 1 =>
        /\ FracLess(beta(e), beta([e EXCEPT !.step = e.step + 1]))
        /\ \A g \in CompareGammas : g > e.gamma =>
               FracLess(beta([e EXCEPT !.gamma = g]), beta(e))

C13_Witness ==
    \E e \in Engines :
        /\ e.step = MaxStep
        /\ e.gamma = 1
        /\ e.initted
        /\ beta(e) = <<100, 121>>
        /\ beta([e EXCEPT !.gamma = 2]) = <<1000, 1331>>

\* the engine after an update call that was throttled: only the counter moved
Idle(e) == [e EXCEPT !.step = e.step + 1]

\* C15 as stated: a KarrasEMA.update call fires exactly when the step value
\* after the increment is divisible by update_every.
C15_GateOnPostIncrementStep ==
    [][(driver = "KarrasEMA" /\ eng # <<>> /\ calls' = calls + 1) =>
          IF eng'[1].step % eng[1].update_every = 0
          THEN eng'[1].initted
          ELSE eng'[1] = Idle(eng[1])]_vars

\* C15: a KarrasEMA.update call fires exactly when the step value it read
\* before the increment is divisible by update_every, so the first call on a
\* fresh engine (step 0) always fires; a call that does not fire only
\* increments the counter, and a call that fires leaves the engine initted,
\* its first firing having copied the eligible parameters.
C15_GateOnPreIncrementStep ==
    [][(driver = "KarrasEMA" /\ eng # <<>> /\ calls' = calls + 1) =>
          IF eng[1].step % eng[1].update_every = 0
          THEN /\ eng'[1].initted
               /\ eng'[1].step = eng[1].step + 1
               /\ ~ eng[1].initted =>
                    \A n \in Eligible(eng[1]) :
                        eng'[1].ema_model[n] = online'[n]
          ELSE eng'[1] = Idle(eng[1])]_vars

\* the second call on an engine with update_every = 2 came with a changed
\* model and was throttled: the EMA copy still holds what the first call
\* copied
C15_Witness ==
    /\ driver = "KarrasEMA"
    /\ calls = 2
    /\ changes = 1
    /\ \E e \in Engines :
        /\ e.update_every = 2
        /\ ~ e.frozen
        /\ e.initted
        /\ e.step = 2
        /\ \E n \in Eligible(e) : e.ema_model[n] # online[n]
                                   /\ e.ema_model[n] \in TensorVals

\* the engines now alive, in order
EngineSeq ==
    IF driver = "KarrasEMA" THEN eng
    ELSE IF ema_models = None THEN <<>> ELSE ema_models[1]

\* C16: an entry whose name is in ignore_names, starts with a prefix of
\* ignore_startswith_names, is in param_or_buffer_names_no_ema, or that is
\* not a floating-point parameter, is written by no update call (neither by
\* the bootstrap copy nor by the blend), so it keeps the EMA value it had at
\* the construction of the engine.
C16_IneligibleUntouched ==
    [][calls' = calls + 1 =>
          \A k \in DOMAIN EngineSeq \cap DOMAIN EngineSeq' :
              LET e == EngineSeq[k]
              IN \A n \in Names :
                    (\/ n \in e.ignore_names
                     \/ \E prefix \in e.ignore_startswith_names :
                            StartsWith(n, prefix)
                     \/ n \in e.param_or_buffer_names_no_ema
                     \/ ~ IsFloat(n))
                        => EngineSeq'[k].ema_model[n] = e.ema_model[n]]_vars

\* the model changed before the first update of an engine that excludes a
\* float parameter by a rule: the eligible parameter was copied, the
\* excluded one and the integer one still differ from the model
C16_Witness ==
    /\ calls >= 1
    /\ changes = 1
    /\ \E e \in Engines :
        /\ e.initted
        /\ e.ema_model[NameW] = online[NameW]
        /\ e.ema_model[NameI] # online[NameI]
        /\ \E n \in Names : /\ IsFloat(n)
                            /\ ~ _should_update_param(e, n)
                            /\ e.ema_model[n] # online[n]

\* C17: a state_dict call whose listed checkpoints are, when it loads them,
\* no longer all there (pruned by the writer's cycle in between) or not all
\* loadable (partially written) fails with an error; a call that returns has
\* loaded every checkpoint it listed.
C17_MissingOrPartialFails ==
    (last.op = "state_dict" /\ last.outcome = "returned") =>
        \A k \in DOMAIN last.collected :
            /\ last.collected[k] \in DOMAIN dir
            /\ dir[last.collected[k]].ok

\* the reader listed a checkpoint, the writer's next cycle pruned it, and the
\* load raised
C17_Witness ==
    /\ last.op = "state_dict"
    /\ last.outcome = "FileNotFoundError"
    /\ \E k \in DOMAIN last.collected : last.collected[k] \notin DOMAIN dir
    /\ \E k \in DOMAIN last.collected : last.collected[k] \in DOMAIN dir
    /\ failures = 0

\* C18: in a PostHocEMA driven through update, the global step equals the
\* step counter of every engine of the profile set after every call, and the
\* step in the name of every complete checkpoint file equals the engine step
\* counter saved inside it.
C18_GlobalStepIsEngineStep ==
    (driver = "PostHocEMA" /\ inst # <<>>) =>
        /\ \A e \in Engines : e.step = inst[1].step
        /\ \A p \in DOMAIN dir : dir[p].ok => dir[p].step = IntOf(p[2])

\* a checkpoint cycle ran at a two-digit step
C18_Witness ==
    /\ UpdateReturned
    /\ inst[1].step = MaxStep
    /\ \A i \in Profiles :
        /\ FileName(i, MaxStep) \in DOMAIN dir
        /\ dir[FileName(i, MaxStep)].step = MaxStep
    /\ Profiles # {}

\* C19: for the first instance on an initially empty directory, pruning never
\* removes the checkpoint just written: after every update call that ran a
\* checkpoint cycle at global step s and returned, the file of (i, s) exists
\* for every profile i and s is the largest step stored for that profile.
C19_NewestSurvivesPrune ==
    (/\ driver = "PostHocEMA"
     /\ restarts = 1
     /\ inst # <<>>
     /\ ema_models # None
     /\ UpdateReturned
     /\ CheckpointDue(inst[1].step, inst[1].checkpoint_every)) =>
        \A i \in Profiles :
            /\ FileName(i, inst[1].step) \in DOMAIN dir
            /\ dir[FileName(i, inst[1].step)].ok
            /\ \A t \in StepsOf(DOMAIN dir, i) : t <= inst[1].step

\* the cycle at step 10 pruned an older checkpoint of every profile and kept
\* the new one
C19_Witness ==
    /\ driver = "PostHocEMA"
    /\ restarts = 1
    /\ UpdateReturned
    /\ inst[1].step = MaxStep
    /\ CheckpointDue(inst[1].step, inst[1].checkpoint_every)
    /\ Profiles # {}
    /\ \A i \in Profiles :
        /\ FileName(i, inst[1].step) \in DOMAIN dir
        /\ \E p \in last.before : p[1] = Str(i) /\ p \notin DOMAIN dir

====
